---- MODULE Spec2Model ----
(***************************************************************************)
(* Model of rest_framework_friendly_errors/mixins.py                       *)
(* (FriendlyErrorMessagesMixin): registration of errors, reconstruction of *)
(* the template kwargs, reverse matching of templates, re-execution of     *)
(* validators and flattening of nested serializer errors.                  *)
(*                                                                         *)
(* Strings are sequences of one-character strings, so that formatting is   *)
(* real concatenation and two different templates can format identically.  *)
(***************************************************************************)
EXTENDS Integers, Sequences, FiniteSets, TLC

VARIABLES
    initial_data,       \* per serializer: the submitted payload (self.initial_data)
    registered_errors,  \* per serializer: self.registered_errors, key -> entry
    raw_errors,         \* per serializer: the framework's raw error map (super().errors)
    registered_log,     \* history: what register_error was asked to store, per key
    last,               \* the last call made on the mixin and what it returned
    nops                \* number of framework/validation steps taken so far

vars == <<initial_data, registered_errors, raw_errors, registered_log, last, nops>>

---------------------------------------------------------------------------
\* Bounds of the model

MaxLen == 2          \* longest submitted list of identifiers
MaxOps == 2          \* validation steps (raw messages produced, registrations)

---------------------------------------------------------------------------
\* Python values.  t is type(value).__name__, v the characters of a str or int,
\* or the elements (one-character identifiers) of a list.

StrV(chars) == [t |-> "str", v |-> chars]
ListV(elems) == [t |-> "list", v |-> elems]
NoneV == [t |-> "NoneType", v |-> <<>>]
DictV == [t |-> "dict", v |-> <<>>]
Absent == [t |-> "absent", v |-> <<>>]   \* the key is not in the mapping

None == "None"       \* Python None where the model holds a name (field, key)
NoCode == 0          \* Python None where the model holds a code

Digits == <<"0", "1", "2", "3", "4", "5", "6", "7", "8", "9">>

RECURSIVE IntStr(_)
IntStr(n) == IF n < 10 THEN <<Digits[n + 1]>>
             ELSE IntStr(n \div 10) \o <<Digits[(n % 10) + 1]>>

IntV(n) == [t |-> "int", v |-> IntStr(n)]

\* An optional integer attribute: <<>> is None, <<n>> is n.
AttrV(a) == IF a = <<>> THEN NoneV ELSE IntV(a[1])

TypeChars == [str |-> <<"s", "t", "r">>,
              list |-> <<"l", "i", "s", "t">>,
              int |-> <<"i", "n", "t">>,
              dict |-> <<"d", "i", "c", "t">>,
              NoneType |-> <<"N", "o", "n", "e", "T", "y", "p", "e">>]

TypeName(val) == StrV(TypeChars[val.t])

RECURSIVE ListRepr(_)
ListRepr(elems) ==
    IF elems = <<>> THEN <<>>
    ELSE <<"'", Head(elems), "'">>
         \o (IF Len(elems) > 1 THEN <<",", " ">> ELSE <<>>)
         \o ListRepr(Tail(elems))

\* What str.format writes for a value.
Str(val) ==
    CASE val.t = "str" -> val.v
      [] val.t = "int" -> val.v
      [] val.t = "NoneType" -> <<"N", "o", "n", "e">>
      [] val.t = "list" -> <<"[">> \o ListRepr(val.v) \o <<"]">>
      [] OTHER -> <<"{", "}">>

\* Templates: a sequence of literal characters and named placeholders.
Lit(c) == [ph |-> FALSE, s |-> c]
Ph(n) == [ph |-> TRUE, s |-> n]

RECURSIVE Format(_, _)
Format(tpl, kwargs) ==
    IF tpl = <<>> THEN <<>>
    ELSE (IF Head(tpl).ph THEN Str(kwargs[Head(tpl).s]) ELSE <<Head(tpl).s>>)
         \o Format(Tail(tpl), kwargs)

\* dict.update: the right operand wins.
Update(d, e) == e @@ d

---------------------------------------------------------------------------
\* The serializers and their field descriptors (the inputs of the mixin).

Structs == {"root", "profile", "items", "address"}

BaseField == [cls |-> "Field", keys |-> <<>>, tpl |-> <<>>, validators |-> <<>>,
              child_relation |-> None, nested |-> "no", friendly |-> TRUE,
              max_length |-> <<>>, min_length |-> <<>>, min_value |-> <<>>,
              max_value |-> <<>>, decimal_places |-> <<>>, max_digits |-> <<>>,
              slug_field |-> NoneV]

Desc ==
    [name |->
        [BaseField EXCEPT
            !.cls = "CharField",
            !.keys = <<"required", "invalid", "blank", "max_length">>,
            !.tpl = [required |-> <<Lit("q")>>,
                     invalid |-> <<Lit("x"), Ph("value")>>,
                     blank |-> <<Lit("x"), Lit("a")>>,
                     max_length |-> <<Lit("m"), Ph("max_length")>>],
            !.validators = <<"check_list", "always_fails">>,
            !.max_length = <<3>>],
     tags |->
        [BaseField EXCEPT
            !.cls = "ManyRelatedField",
            !.keys = <<"not_a_list", "empty">>,
            !.tpl = [not_a_list |-> <<Lit("t"), Ph("input_type")>>,
                     empty |-> <<Lit("y")>>],
            !.child_relation = "tags_child"],
     tags_child |->
        [BaseField EXCEPT
            !.cls = "SlugRelatedField",
            !.keys = <<"required", "does_not_exist", "invalid">>,
            !.tpl = [required |-> <<Lit("q")>>,
                     does_not_exist |-> <<Lit("o"), Ph("value")>>,
                     invalid |-> <<Lit("i"), Ph("value")>>],
            !.slug_field = StrV(<<"s">>)],
     owners |->
        [BaseField EXCEPT
            !.cls = "ManyRelatedField",
            !.keys = <<"not_a_list", "empty">>,
            !.tpl = [not_a_list |-> <<Lit("t"), Ph("input_type")>>,
                     empty |-> <<Lit("y")>>],
            !.child_relation = "owners_child"],
     owners_child |->
        [BaseField EXCEPT
            !.cls = "PrimaryKeyRelatedField",
            !.keys = <<"required", "does_not_exist", "incorrect_type">>,
            !.tpl = [required |-> <<Lit("q")>>,
                     does_not_exist |-> <<Lit("p"), Ph("pk_value")>>,
                     incorrect_type |-> <<Lit("c"), Ph("data_type")>>]],
     profile |->
        [BaseField EXCEPT
            !.cls = "ProfileSerializer",
            !.keys = <<"required", "null">>,
            !.tpl = [required |-> <<Lit("q")>>, null |-> <<Lit("u")>>],
            !.nested = "one"],
     items |->
        [BaseField EXCEPT
            !.cls = "ListSerializer",
            !.keys = <<"required", "not_a_list">>,
            !.tpl = [required |-> <<Lit("q")>>,
                     not_a_list |-> <<Lit("t"), Ph("input_type")>>],
            !.validators = <<"check_list">>,
            !.nested = "many"],
     address |->
        [BaseField EXCEPT
            !.cls = "AddressSerializer",
            !.keys = <<"required">>,
            !.tpl = [required |-> <<Lit("q")>>],
            !.nested = "one",
            !.friendly = FALSE],
     bio |->
        [BaseField EXCEPT
            !.cls = "CharField",
            !.keys = <<"required", "blank">>,
            !.tpl = [required |-> <<Lit("q")>>, blank |-> <<Lit("b")>>],
            !.validators = <<"always_fails", "check_list">>],
     sku |->
        [BaseField EXCEPT
            !.cls = "CharField",
            !.keys = <<"required">>,
            !.tpl = [required |-> <<Lit("q")>>],
            !.validators = <<"needs_field">>]]

\* self.fields of each serializer
Fields == [root |-> {"name", "tags", "owners", "profile", "items", "address"},
           profile |-> {"bio"},
           items |-> {"sku"},
           address |-> {}]

\* FieldMap.field_map: type tag -> class names
field_map ==
    [boolean |-> {"BooleanField", "NullBooleanField"},
     string |-> {"CharField", "EmailField", "SlugField", "URLField"},
     numeric |-> {"IntegerField", "FloatField", "DecimalField"},
     date |-> {"DateField", "DateTimeField", "TimeField"},
     choice |-> {"ChoiceField", "MultipleChoiceField"},
     file |-> {"FileField", "ImageField"},
     composite |-> {"ListField", "DictField"},
     relation |-> {"PrimaryKeyRelatedField", "SlugRelatedField",
                   "ManyRelatedField", "HyperlinkedRelatedField"}]

\* self.initial_data.get(name)
Get(data, name) ==
    IF name \in DOMAIN data.d /\ data.d[name] # Absent THEN data.d[name] ELSE NoneV

Has(data, name) == name \in DOMAIN data.d /\ data.d[name] # Absent

---------------------------------------------------------------------------
\* get_field_kwargs

get_field_kwargs(field, field_data) ==
    LET field_type == field.cls
        kwargs == [data_type |-> TypeName(field_data),
                   input_type |-> TypeName(field_data)]
    IN  IF field_type \in field_map.boolean
        THEN Update(kwargs, [input |-> field_data])
        ELSE IF field_type \in field_map.string
        THEN Update(kwargs, [max_length |-> AttrV(field.max_length),
                             min_length |-> AttrV(field.min_length),
                             value |-> field_data])
        ELSE IF field_type \in field_map.numeric
        THEN LET k2 == Update(kwargs,
                         [min_value |-> AttrV(field.min_value),
                          max_value |-> AttrV(field.max_value),
                          decimal_places |-> AttrV(field.decimal_places),
                          max_decimal_places |-> AttrV(field.decimal_places),
                          max_digits |-> AttrV(field.max_digits)])
             IN  IF field.max_digits # <<>> /\ field.decimal_places # <<>>
                 THEN Update(k2, [max_whole_digits |->
                          IntV(field.max_digits[1] - field.decimal_places[1])])
                 ELSE k2
        ELSE IF field_type \in field_map.date
        THEN Update(kwargs, [format |-> StrV(<<"f">>)])
        ELSE IF field_type \in field_map.choice
        THEN Update(kwargs, [input |-> field_data,
                             input_type |-> TypeName(field_data)])
        ELSE IF field_type \in field_map.file
        THEN Update(kwargs, [max_length |-> AttrV(field.max_length),
                             length |-> IntV(Len(field_data.v))])
        ELSE IF field_type \in field_map.composite
        THEN Update(kwargs, [input_type |-> TypeName(field_data),
                             max_length |-> AttrV(field.max_length),
                             min_length |-> AttrV(field.min_length)])
        ELSE IF field_type \in field_map.relation
        THEN Update(kwargs, [pk_value |-> field_data,
                             data_type |-> TypeName(field_data),
                             input_type |-> TypeName(field_data),
                             slug_name |-> field.slug_field,
                             value |-> field_data])
        ELSE Update(kwargs, [max_length |-> AttrV(field.max_length)])

---------------------------------------------------------------------------
\* does_not_exist_many_to_many_handler.  new_kwargs = kwargs binds the same
\* dict, so each new_kwargs['value'] = value also rewrites the caller's kwargs:
\* the result carries the kwargs as the loop left them.

\* one iteration of the handler's loop, new_kwargs being the dict after
\* new_kwargs['value'] = value
RECURSIVE HandlerLoop(_, _, _, _)
HandlerStep(unformatted, message, new_kwargs, values) ==
    IF Format(unformatted, new_kwargs) = message
    THEN [found |-> TRUE, kwargs |-> new_kwargs]
    ELSE HandlerLoop(unformatted, message, new_kwargs, Tail(values))

HandlerLoop(unformatted, message, kwargs, values) ==
    IF values = <<>> THEN [found |-> FALSE, kwargs |-> kwargs]
    ELSE HandlerStep(unformatted, message,
                     [kwargs EXCEPT !["value"] = StrV(<<Head(values)>>)], values)

does_not_exist_many_to_many_handler(field, message, kwargs) ==
    HandlerLoop(field.tpl["does_not_exist"], message, kwargs, kwargs["value"].v)

\* find_key: the loop over field.error_messages from position i on
RECURSIVE FindKeyLoop(_, _, _, _)

\* the second test of the loop body: unformatted.format(**kwargs) == message
FindKeyFormat(field, message, kwargs, i) ==
    IF Format(field.tpl[field.keys[i]], kwargs) = message THEN field.keys[i]
    ELSE FindKeyLoop(field, message, kwargs, i + 1)

\* the first test once the handler has run (h is what it returned and the
\* kwargs it left behind)
FindKeyHandled(field, message, i, h) ==
    IF h.found THEN field.keys[i]
    ELSE FindKeyFormat(field, message, h.kwargs, i)

FindKeyLoop(field, message, kwargs, i) ==
    IF i > Len(field.keys) THEN None
    ELSE IF /\ field.keys[i] = "does_not_exist"
            /\ "value" \in DOMAIN kwargs
            /\ kwargs["value"].t = "list"
    THEN FindKeyHandled(field, message, i,
                        does_not_exist_many_to_many_handler(field, message, kwargs))
    ELSE FindKeyFormat(field, message, kwargs, i)

RECURSIVE find_key(_, _, _, _)

\* after the loop: the key it returned, else the child relation's answer
FindKeyChild(field, message, field_name, data, key) ==
    IF key # None THEN key
    ELSE IF field.child_relation # None
    THEN find_key(Desc[field.child_relation], message, field_name, data)
    ELSE None

find_key(field, message, field_name, data) ==
    FindKeyChild(field, message, field_name, data,
                 FindKeyLoop(field, message,
                             get_field_kwargs(field, Get(data, field_name)), 1))

---------------------------------------------------------------------------
\* The classification catalog (rest_framework_friendly_errors.settings) and the
\* per-serializer override tables

DGet(table, k) == IF k \in DOMAIN table THEN table[k] ELSE NoCode

\* Python's `a or b` on codes: None is falsy, a catalog code is a positive number
Or(a, b) == IF a = NoCode THEN b ELSE a

FRIENDLY_FIELD_ERRORS ==
    [CharField |-> [required |-> 2007, invalid |-> 2001, blank |-> 2031],
     ManyRelatedField |-> [not_a_list |-> 2081, empty |-> 2082],
     SlugRelatedField |-> [required |-> 2007, does_not_exist |-> 2091,
                           invalid |-> 2092]]

\* settings.FRIENDLY_FIELD_ERRORS.get(field_type, {}).get(key)
FieldCode(field_type, key) ==
    IF field_type \in DOMAIN FRIENDLY_FIELD_ERRORS
    THEN DGet(FRIENDLY_FIELD_ERRORS[field_type], key) ELSE NoCode

FRIENDLY_VALIDATOR_ERRORS ==
    [check_list |-> 5001, always_fails |-> 5002, validate_name |-> 5003]

FRIENDLY_NON_FIELD_ERRORS ==
    (<<"i", "n", "v", "a", "l", "i", "d">> :> 1001) @@ (<<"g">> :> 1002)

INVALID_DATA_MESSAGE == <<Lit("d"), Ph("data_type")>>

VALIDATION_FAILED_CODE == "VALIDATION_FAILED_CODE"
VALIDATION_FAILED_MESSAGE == <<"V">>

\* class attributes FIELD_VALIDATION_ERRORS and NON_FIELD_ERRORS of each serializer
FIELD_VALIDATION_ERRORS ==
    [root |-> [always_fails |-> 7002],
     profile |-> [check_list |-> 7001],
     items |-> <<>>]

NON_FIELD_ERRORS ==
    [root |-> <<>>, profile |-> (<<"g">> :> 7100), items |-> <<>>]

---------------------------------------------------------------------------
\* Validators: the named arguments each declares, the message it fails with
\* and the types of value it fails on (a validator that takes no value fails
\* always or never).

Validators ==
    [check_list |-> [args |-> {"value"}, message |-> <<"e">>,
                     fails_on |-> {"list"}],
     always_fails |-> [args |-> {}, message |-> <<"e">>,
                     fails_on |-> {"str", "list", "NoneType", "dict"}],
     needs_field |-> [args |-> {"value", "serializer_field"}, message |-> <<"f">>,
                     fails_on |-> {"str"}],
     validate_name |-> [args |-> {"self", "value"}, message |-> <<"h">>,
                     fails_on |-> {"str", "list"}]]

\* getattr(self, "validate_%s" % field.field_name, None)
Hook(s, fname) == IF s = "root" /\ fname = "name" THEN "validate_name" ELSE None

\* _run_validator: "True"/"False" is the comparison of the carried message,
\* "None" the fall-through when the validator passes, "KeyError" the exception
\* of self.initial_data[field.field_name] when the field was not submitted.
run_validator(validator, fname, message, data) ==
    IF "value" \in Validators[validator].args /\ ~Has(data, fname) THEN "KeyError"
    ELSE IF \/ /\ "value" \in Validators[validator].args
               /\ Get(data, fname).t \in Validators[validator].fails_on
            \/ /\ "value" \notin Validators[validator].args
               /\ Validators[validator].fails_on # {}
    THEN (IF Validators[validator].message = message THEN "True" ELSE "False")
    ELSE "None"

\* mutant: the last declared validator that matches is returned
RECURSIVE find_validator_last(_, _, _, _, _, _)
FindValidatorLastStep(validators, i, ran, r, rest) ==
    IF r = "KeyError" THEN [exc |-> "KeyError", validator |-> None, ran |-> ran]
    ELSE IF r = "True" /\ rest.validator = None /\ rest.exc = "none"
    THEN [exc |-> "none", validator |-> validators[i], ran |-> rest.ran]
    ELSE rest

find_validator_last(validators, fname, message, data, i, ran) ==
    IF i > Len(validators) THEN [exc |-> "none", validator |-> None, ran |-> ran]
    ELSE FindValidatorLastStep(
             validators, i, Append(ran, validators[i]),
             run_validator(validators[i], fname, message, data),
             find_validator_last(validators, fname, message, data, i + 1,
                                 Append(ran, validators[i])))

\* find_validator: the loop over field.validators from position i on; ran is
\* the list of callables re-executed so far, r what _run_validator returned
RECURSIVE find_validator(_, _, _, _, _, _)
FindValidatorStep(validators, fname, message, data, i, ran, r) ==
    IF r = "KeyError" THEN [exc |-> "KeyError", validator |-> None, ran |-> ran]
    ELSE IF r = "True" THEN [exc |-> "none", validator |-> validators[i], ran |-> ran]
    ELSE find_validator(validators, fname, message, data, i + 1, ran)

find_validator(validators, fname, message, data, i, ran) ==
    IF i > Len(validators) THEN [exc |-> "none", validator |-> None, ran |-> ran]
    ELSE FindValidatorStep(validators, fname, message, data, i,
                           Append(ran, validators[i]),
                           run_validator(validators[i], fname, message, data))

\* self.FIELD_VALIDATION_ERRORS.get(name) or settings.FRIENDLY_VALIDATOR_ERRORS.get(name)
ValidatorCode(s, name) ==
    Or(DGet(FIELD_VALIDATION_ERRORS[s], name), DGet(FRIENDLY_VALIDATOR_ERRORS, name))

Entry(code, field, message) ==
    [code |-> code, field |-> field, message |-> message, ref |-> <<>>]

\* what a call of get_field_error_entry gives: the entry it returns or the
\* exception it raises, the return statement taken (path) and the callables
\* re-executed on the way (ran)
Returned(entry, path, ran) ==
    [exc |-> "none", entry |-> entry, path |-> path, ran |-> ran]

Raised(exc, ran) ==
    [exc |-> exc, entry |-> Entry(NoCode, None, <<>>), path |-> "raise", ran |-> ran]

\* get_field_error_entry from the validate_<field> hook on; matched is what
\* _run_validator returned for the hook
EntryAfterHook(s, error, fname, ran, matched) ==
    IF matched = "KeyError" THEN Raised("KeyError", ran)
    ELSE IF matched = "True"
    THEN Returned(Entry(ValidatorCode(s, Hook(s, fname)), fname, error), "hook", ran)
    ELSE Returned(Entry(FieldCode(Desc[fname].cls, None), fname, error), "unknown", ran)

\* get_field_error_entry from `if validator:` on; fv is what find_validator gave
EntryAfterValidators(s, data, error, fname, fv) ==
    IF fv.exc # "none" THEN Raised(fv.exc, fv.ran)
    ELSE IF fv.validator # None
    THEN Returned(Entry(ValidatorCode(s, fv.validator), fname, error),
                  "validator", fv.ran)
    ELSE IF Hook(s, fname) = None
    THEN Returned(Entry(FieldCode(Desc[fname].cls, None), fname, error),
                  "unknown", fv.ran)
    ELSE EntryAfterHook(s, error, fname, Append(fv.ran, Hook(s, fname)),
                        run_validator(Hook(s, fname), fname, error, data))

\* get_field_error_entry from `if not key:` on
EntryAfterKey(s, data, error, fname, key) ==
    IF key # None
    THEN Returned(Entry(FieldCode(Desc[fname].cls, key), fname, error),
                  "template", <<>>)
    ELSE EntryAfterValidators(s, data, error, fname,
             find_validator(Desc[fname].validators, fname, error, data, 1, <<>>))

\* get_field_error_entry.  reg and data are self.registered_errors and
\* self.initial_data.  entry.ref names the stored dict a registered entry is
\* (the same object, not a copy).
get_field_error_entry(s, reg, data, error, fname) ==
    IF error \in DOMAIN reg
    THEN Returned([reg[error] EXCEPT !.ref = error], "registered", <<>>)
    ELSE EntryAfterKey(s, data, error, fname,
                       find_key(Desc[fname], error, fname, data))

\* get_field_error_entries: one entry per message, in order; an exception of
\* one entry ends the comprehension
RECURSIVE get_field_error_entries(_, _, _, _, _)
EntriesCons(e, rest) ==
    IF e.exc # "none" THEN [exc |-> e.exc, entries |-> <<>>]
    ELSE IF rest.exc # "none" THEN rest
    ELSE [exc |-> "none", entries |-> <<e.entry>> \o rest.entries]

get_field_error_entries(s, reg, data, errors, fname) ==
    IF errors = <<>> THEN [exc |-> "none", entries |-> <<>>]
    ELSE EntriesCons(get_field_error_entry(s, reg, data, Head(errors), fname),
                     get_field_error_entries(s, reg, data, Tail(errors), fname))

\* get_non_field_error_entry
get_non_field_error_entry(s, reg, data, error) ==
    IF error \in DOMAIN reg THEN [reg[error] EXCEPT !.ref = error]
    ELSE IF Format(INVALID_DATA_MESSAGE, [data_type |-> StrV(TypeChars[data.t])]) = error
    THEN Entry(DGet(FRIENDLY_NON_FIELD_ERRORS, <<"i", "n", "v", "a", "l", "i", "d">>),
               None, error)
    ELSE Entry(Or(DGet(NON_FIELD_ERRORS[s], error),
                  DGet(FRIENDLY_NON_FIELD_ERRORS, error)), None, error)

get_non_field_error_entries(s, reg, data, errors) ==
    [i \in DOMAIN errors |-> get_non_field_error_entry(s, reg, data, errors[i])]

---------------------------------------------------------------------------
\* register_error

FieldChars == [name |-> <<"n", "a", "m", "e">>,
               tags |-> <<"t", "a", "g", "s">>,
               profile |-> <<"p", "r", "o", "f", "i", "l", "e">>,
               items |-> <<"i", "t", "e", "m", "s">>,
               bio |-> <<"b", "i", "o">>,
               sku |-> <<"s", "k", "u">>]

\* '%s' % field_name
NameStr(field_name) ==
    IF field_name = None THEN <<"N", "o", "n", "e">> ELSE FieldChars[field_name]

\* '%s_%s_%s' % (error_message, error_code, field_name)
CompositeKey(error_message, error_code, field_name) ==
    error_message \o <<"_">> \o IntStr(error_code) \o <<"_">> \o NameStr(field_name)

Rejected == [exc |-> "ValueError", code |-> NoCode]
Resolved(code) == [exc |-> "none", code |-> code]

\* settings.FRIENDLY_FIELD_ERRORS[field_type].get(error_key) and the two
\* ValueErrors around it
CatalogCode(field_type, error_key) ==
    IF field_type \notin DOMAIN FRIENDLY_FIELD_ERRORS THEN Rejected
    ELSE IF DGet(FRIENDLY_FIELD_ERRORS[field_type], error_key) = NoCode THEN Rejected
    ELSE Resolved(DGet(FRIENDLY_FIELD_ERRORS[field_type], error_key))

\* mutant: a call that gives both error_key and error_code is rejected
resolve_code_exactly_one(s, field_name, error_key, error_code) ==
    IF field_name = None
    THEN (IF error_code = NoCode THEN Rejected ELSE Resolved(error_code))
    ELSE IF field_name \notin Fields[s] THEN Rejected
    ELSE IF (error_key = None) = (error_code = NoCode) THEN Rejected
    ELSE IF error_code # NoCode THEN Resolved(error_code)
    ELSE CatalogCode(Desc[field_name].cls, error_key)

\* the checks of register_error and the code it settles on
resolve_code(s, field_name, error_key, error_code) ==
    IF field_name = None
    THEN (IF error_code = NoCode THEN Rejected ELSE Resolved(error_code))
    ELSE IF field_name \notin Fields[s] THEN Rejected
    ELSE IF error_key = None /\ error_code = NoCode THEN Rejected
    ELSE IF error_code # NoCode THEN Resolved(error_code)
    ELSE CatalogCode(Desc[field_name].cls, error_key)

---------------------------------------------------------------------------
\* Flattening of nested serializer errors.  w is the state the calls read and
\* write: reg (registered_errors of every serializer), data (initial_data of
\* every serializer), raw (the raw error maps the framework's validation gives),
\* passes (the nested serializers whose validation was triggered) and nested
\* (what serializer.errors returned for each nested field).

NON_FIELD == "non_field_errors"

wrap_nested_errors(code, errors, field_name) ==
    [code |-> code, field |-> field_name, errors |-> errors]

\* the payload a nested serializer is given: self.initial_data.get(error_type)
NestedData(val) ==
    [t |-> val.t,
     d |-> IF "d" \in DOMAIN val THEN val.d ELSE <<>>,
     recs |-> IF "recs" \in DOMAIN val THEN val.recs ELSE <<>>]

\* sub_error['field'] = error_type on every entry without a field; an entry
\* that is a stored registered error is rewritten in the store it lives in
RECURSIVE RenameStored(_, _, _)
RenameStored(reg, sub_errors, error_type) ==
    IF sub_errors = <<>> THEN reg
    ELSE RenameStored(
             IF /\ Head(sub_errors).field = None
                /\ Head(sub_errors).ref # <<>>
                /\ Head(sub_errors).ref \in DOMAIN reg
             THEN [reg EXCEPT ![Head(sub_errors).ref].field = error_type]
             ELSE reg,
             Tail(sub_errors), error_type)

\* serializer_error_dict.get('errors', [])
SubErrors(serializer_error_dict) ==
    IF "errors" \in DOMAIN serializer_error_dict
    THEN serializer_error_dict.errors ELSE <<>>

\* the loop of process_sub_serializer_errors: result after the for statement
Renamed(sub_serializer_errors, error_type) ==
    [i \in DOMAIN sub_serializer_errors |->
        IF sub_serializer_errors[i].field = None
        THEN [sub_serializer_errors[i] EXCEPT !.field = error_type]
        ELSE sub_serializer_errors[i]]

\* result.extend(self.get_non_field_error_entries(...)), read from the stores
\* as the loop left them
ExtendNonField(s, data, serializer_error_dict, result, w) ==
    [result |-> IF NON_FIELD \in DOMAIN serializer_error_dict
                THEN result \o get_non_field_error_entries(
                                   s, w.reg[s], data, serializer_error_dict[NON_FIELD])
                ELSE result,
     w |-> w]

\* mutant: entries without a field keep None
process_sub_serializer_errors_keep_none(s, data, serializer_error_dict, error_type, w) ==
    ExtendNonField(s, data, serializer_error_dict,
                   SubErrors(serializer_error_dict), w)

\* process_sub_serializer_errors, called on serializer s for its field error_type
process_sub_serializer_errors(s, data, serializer_error_dict, error_type, w) ==
    ExtendNonField(
        s, data, serializer_error_dict,
        Renamed(SubErrors(serializer_error_dict), error_type),
        [w EXCEPT !.reg[error_type] =
            RenameStored(@, SubErrors(serializer_error_dict), error_type)])

Envelope(pretty) ==
    IF pretty # <<>>
    THEN [code |-> VALIDATION_FAILED_CODE, message |-> VALIDATION_FAILED_MESSAGE,
          errors |-> pretty]
    ELSE <<>>

RECURSIVE BuildLoop(_, _, _, _, _, _)

\* serializer.errors of a nested serializer with many=True: one friendly-error
\* dict per record, each record classified on its own payload
RECURSIVE ManyErrors(_, _, _, _)
ManyErrorsNext(child, i, acc, r) ==
    IF r.exc # "none" THEN [exc |-> r.exc, val |-> <<>>, w |-> r.w]
    ELSE ManyErrors(child, r.w, i + 1, Append(acc, r.val))

ManyErrors(child, w, i, acc) ==
    IF i > Len(w.data[child].recs) THEN [exc |-> "none", val |-> acc, w |-> w]
    ELSE ManyErrorsNext(child, i, acc,
             BuildLoop(child, [t |-> "dict", d |-> w.data[child].recs[i]],
                       w.raw[child][i], 1, <<>>, w))

\* serializer.initial_data = self.initial_data.get(error_type)
BindInitialData(data, error_type, w) ==
    [w EXCEPT !.data[error_type] = NestedData(Get(data, error_type)),
              !.passes = @ \cup {error_type}]

\* the errors of a nested serializer that does not mix the class in: the raw
\* error map itself, bucket -> messages
RawErrors(errors) ==
    [bucket \in {errors[i].type : i \in DOMAIN errors} |->
        errors[CHOOSE i \in DOMAIN errors : errors[i].type = bucket].msgs]

\* serializer.is_valid(); serializer.errors
SerializerErrors(error_type, w) ==
    IF ~Desc[error_type].friendly
    THEN [exc |-> "none", val |-> RawErrors(w.raw[error_type]), w |-> w]
    ELSE IF Desc[error_type].nested = "many"
    THEN ManyErrors(error_type, w, 1, <<>>)
    ELSE BuildLoop(error_type, w.data[error_type], w.raw[error_type], 1, <<>>, w)

ReturnErrors(error_type, r) ==
    [exc |-> r.exc, val |-> r.val,
     w |-> IF r.exc = "none"
           THEN [r.w EXCEPT !.nested = (error_type :> r.val) @@ @]
           ELSE r.w]

\* get_sub_serializer_errors: binds the nested payload, triggers the nested
\* validation pass and reads the nested serializer's own errors
get_sub_serializer_errors(data, error_type, w) ==
    ReturnErrors(error_type,
                 SerializerErrors(error_type, BindInitialData(data, error_type, w)))

\* the loop of process_sub_serializer over the records of a many=True result
RECURSIVE ProcessRecords(_, _, _, _, _, _)
ProcessRecordsNext(s, data, field_errors, error_type, list_errors, r) ==
    ProcessRecords(s, data, Tail(field_errors), error_type, r.w,
                   Append(list_errors, r.result))

ProcessRecords(s, data, field_errors, error_type, w, list_errors) ==
    IF field_errors = <<>> THEN [result |-> list_errors, w |-> w]
    ELSE ProcessRecordsNext(s, data, field_errors, error_type, list_errors,
             process_sub_serializer_errors(s, data, Head(field_errors), error_type, w))

\* pretty.append(self.wrap_nested_errors(code, errors, error_type))
AppendWrapped(pretty, code, error_type, r) ==
    [exc |-> "none", w |-> r.w,
     pretty |-> Append(pretty, wrap_nested_errors(code, r.result, error_type))]

\* process_sub_serializer from `if isinstance(field_errors, list)` on, which
\* holds exactly for the errors of a serializer with many=True
WrapFieldErrors(s, data, pretty, error_type, fe) ==
    IF fe.exc # "none" THEN [exc |-> fe.exc, pretty |-> pretty, w |-> fe.w]
    ELSE IF Desc[error_type].nested = "many"
    THEN AppendWrapped(pretty, 2902, error_type,
                       ProcessRecords(s, data, fe.val, error_type, fe.w, <<>>))
    ELSE AppendWrapped(pretty, 2901, error_type,
                       process_sub_serializer_errors(s, data, fe.val, error_type, fe.w))

process_sub_serializer(s, data, pretty, error_type, w) ==
    WrapFieldErrors(s, data, pretty, error_type,
                    get_sub_serializer_errors(data, error_type, w))

\* mutant: every field that is a serializer is flattened, submitted or not
enters_nested_always(field, data, error_type) == field.nested # "no"

\* the test of build_pretty_errors that enters the nested pass
enters_nested(field, data, error_type) ==
    field.nested # "no" /\ Has(data, error_type)

\* build_pretty_errors after process_sub_serializer: continue
BuildAfterSub(s, data, errors, i, sub) ==
    IF sub.exc # "none" THEN [exc |-> sub.exc, val |-> <<>>, w |-> sub.w]
    ELSE BuildLoop(s, data, errors, i + 1, sub.pretty, sub.w)

\* build_pretty_errors after get_field_error_entries: pretty.extend
BuildAfterEntries(s, data, errors, i, pretty, w, r) ==
    IF r.exc # "none" THEN [exc |-> r.exc, val |-> <<>>, w |-> w]
    ELSE BuildLoop(s, data, errors, i + 1, pretty \o r.entries, w)

\* build_pretty_errors: the loop over the raw error map from bucket i on
BuildLoop(s, data, errors, i, pretty, w) ==
    IF i > Len(errors) THEN [exc |-> "none", val |-> Envelope(pretty), w |-> w]
    ELSE IF errors[i].type = NON_FIELD
    THEN BuildLoop(s, data, errors, i + 1,
                   pretty \o get_non_field_error_entries(s, w.reg[s], data,
                                                         errors[i].msgs), w)
    ELSE IF enters_nested(Desc[errors[i].type], data, errors[i].type)
    THEN BuildAfterSub(s, data, errors, i,
                       process_sub_serializer(s, data, pretty, errors[i].type, w))
    ELSE BuildAfterEntries(s, data, errors, i, pretty, w,
             get_field_error_entries(s, w.reg[s], data, errors[i].msgs,
                                     errors[i].type))

build_pretty_errors(s, w) == BuildLoop(s, w.data[s], w.raw[s], 1, <<>>, w)

---------------------------------------------------------------------------
\* Submitted values and messages the model draws from

Idents == {"a", "b"}

RECURSIVE SeqsUpTo(_, _)
SeqsUpTo(S, n) ==
    IF n = 0 THEN {<<>>}
    ELSE SeqsUpTo(S, n - 1) \cup {Append(s, x) : s \in SeqsUpTo(S, n - 1), x \in S}

ListVals == {ListV(s) : s \in SeqsUpTo(Idents, MaxLen)}
ScalarVals == {StrV(<<x>>) : x \in Idents}
LeafVals == ListVals \cup ScalarVals \cup {NoneV, Absent}

\* the descriptors find_key walks for a field: the field, then its child relation
RECURSIVE Chain(_)
Chain(dname) ==
    <<dname>> \o (IF Desc[dname].child_relation # None
                  THEN Chain(Desc[dname].child_relation) ELSE <<>>)

Range(s) == {s[i] : i \in DOMAIN s}

\* the identifiers of a submitted list, each as a value submitted on its own
Elements(val) ==
    IF val.t = "list" THEN {StrV(<<val.v[i]>>) : i \in DOMAIN val.v} ELSE {}

\* the kwargs a template of the descriptor can meet for a submitted value: those
\* of the value, those of each of its elements submitted on its own, and those
\* of the value with one element as its 'value'
KwargsFor(dn, val) ==
    {get_field_kwargs(Desc[dn], x) : x \in {val} \cup Elements(val)}
    \cup {[get_field_kwargs(Desc[dn], val) EXCEPT !["value"] = x] :
            x \in IF "value" \in DOMAIN get_field_kwargs(Desc[dn], val)
                  THEN Elements(val) ELSE {}}

\* every message a template of the field can format to, and one none gives
KeyMessages(fname, data) ==
    UNION {{Format(Desc[dn].tpl[k], kw) :
                k \in Range(Desc[dn].keys), kw \in KwargsFor(dn, Get(data, fname))}
           : dn \in Range(Chain(fname))}
    \cup {<<"z">>}

NoFields == [name |-> Absent, tags |-> Absent, owners |-> Absent,
             profile |-> Absent, items |-> Absent, address |-> Absent]

RootData(d) == [t |-> "dict", d |-> d]

Unset == [t |-> "unset", d |-> <<>>, recs |-> <<>>]

---------------------------------------------------------------------------
\* Specification of find_key alone: any submitted value, any message.

KeyFields == {"name", "tags", "owners"}

InitKey ==
    /\ \E fname \in KeyFields, val \in LeafVals :
          initial_data = [s \in Structs |->
                             IF s = "root" THEN RootData([NoFields EXCEPT ![fname] = val])
                             ELSE Unset]
    /\ registered_errors = [s \in Structs |-> <<>>]
    /\ raw_errors = [s \in Structs |-> <<>>]
    /\ registered_log = [s \in Structs |-> <<>>]
    /\ last = [op |-> "none"]
    /\ nops = 0

FindKeyCall ==
    \E fname \in KeyFields :
      \E message \in KeyMessages(fname, initial_data.root) :
        /\ last' = [op |-> "find_key", field |-> fname, message |-> message,
                    key |-> find_key(Desc[fname], message, fname, initial_data.root)]
        /\ UNCHANGED <<initial_data, registered_errors, raw_errors,
                       registered_log, nops>>

NextKey == FindKeyCall

SpecKey == InitKey /\ [][NextKey]_vars

---------------------------------------------------------------------------
\* The mixin in use: the framework validates the submitted payload (raw
\* messages appear in the raw error maps, validation code calls
\* register_error), and callers read the errors property.

Submitted == {ListV(<<"a">>)}

ProfileVals ==
    {Absent, NoneV,
     [t |-> "dict", v |-> <<>>, d |-> [bio |-> Absent]],
     [t |-> "dict", v |-> <<>>, d |-> [bio |-> ListV(<<"a">>)]]}

\* the address is always submitted, as an empty mapping
AddressVal == [t |-> "dict", v |-> <<>>, d |-> <<>>]

ItemsVals ==
    {Absent,
     [t |-> "list", v |-> <<>>, recs |-> <<[sku |-> Absent], [sku |-> StrV(<<"a">>)]>>]}

Init ==
    /\ \E nm \in Submitted \cup {Absent}, pr \in ProfileVals, it \in ItemsVals :
         /\ initial_data = [s \in Structs |->
                               IF s = "root"
                               THEN RootData([NoFields EXCEPT !.name = nm,
                                                              !.profile = pr,
                                                              !.items = it,
                                                              !.address = AddressVal])
                               ELSE Unset]
         /\ raw_errors = [s \in Structs |->
                             IF s = "items" /\ it # Absent
                             THEN [i \in DOMAIN it.recs |-> <<>>] ELSE <<>>]
    /\ registered_errors = [s \in Structs |-> <<>>]
    /\ registered_log = [s \in Structs |-> <<>>]
    /\ last = [op |-> "none"]
    /\ nops = 0

\* the raw error map with one more message in a bucket
AddMessage(errors, bucket, message) ==
    IF \E i \in DOMAIN errors : errors[i].type = bucket
    THEN [i \in DOMAIN errors |->
            IF errors[i].type = bucket
            THEN [errors[i] EXCEPT !.msgs = Append(@, message)] ELSE errors[i]]
    ELSE Append(errors, [type |-> bucket, msgs |-> <<message>>])

\* the parent's raw error map has a bucket for every nested serializer whose
\* validation failed
WithBucket(errors, bucket) ==
    IF \E i \in DOMAIN errors : errors[i].type = bucket THEN errors
    ELSE Append(errors, [type |-> bucket, msgs |-> <<>>])

\* the raw error maps once validation of s files a message under a bucket
Filed(s, bucket, message) ==
    IF s = "root"
    THEN [raw_errors EXCEPT !.root = AddMessage(@, bucket, message)]
    ELSE [raw_errors EXCEPT ![s] = AddMessage(@, bucket, message),
                            !.root = WithBucket(@, s)]

\* what the root's payload holds for a nested field
RootValue(fname) == Get(initial_data.root, fname)

\* the messages validation can put in a bucket of a serializer's raw error map.
\* A nested serializer is validated only when the root's payload holds a value
\* for it, its fields only when that value is a mapping.
RawMessages(s, bucket) ==
    CASE s = "root" /\ bucket = NON_FIELD -> {<<"g">>}
      [] s = "root" /\ bucket = "name" -> {<<"q">>, <<"e">>, <<"h">>}
      [] s = "root" /\ bucket = "profile" ->
            IF Has(initial_data.root, "profile") THEN {} ELSE {<<"q">>}
      [] s = "root" /\ bucket = "items" ->
            IF Has(initial_data.root, "items") THEN {} ELSE {<<"e">>}
      [] s = "profile" /\ bucket = NON_FIELD ->
            IF ~Has(initial_data.root, "profile") THEN {}
            ELSE IF RootValue("profile").t = "dict" THEN {<<"g">>}
            ELSE {Format(INVALID_DATA_MESSAGE,
                         [data_type |-> TypeName(RootValue("profile"))])}
      [] s = "profile" /\ bucket = "bio" ->
            IF Has(initial_data.root, "profile") /\ RootValue("profile").t = "dict"
            THEN {<<"e">>, <<"z">>} ELSE {}
      [] s = "items" /\ bucket = "sku" -> {<<"q">>, <<"f">>}
      [] s = "address" /\ bucket = NON_FIELD ->
            IF Has(initial_data.root, "address") THEN {<<"g">>} ELSE {}
      [] OTHER -> {}

\* the framework's validation of a serializer yields one more raw message
ValidationFails ==
    /\ nops < MaxOps
    /\ \E s \in {"root", "profile", "address"} :
         \E bucket \in Fields[s] \cup {NON_FIELD} :
           \E message \in RawMessages(s, bucket) :
             raw_errors' = Filed(s, bucket, message)
    /\ nops' = nops + 1
    /\ last' = [op |-> "validate"]
    /\ UNCHANGED <<initial_data, registered_errors, registered_log>>

\* the validation of one record of the many=True serializer yields a message
RecordValidationFails ==
    /\ nops < MaxOps
    /\ \E i \in DOMAIN raw_errors.items :
         \E bucket \in Fields["items"] \cup {NON_FIELD} :
           \E message \in RawMessages("items", bucket) :
             raw_errors' = [raw_errors EXCEPT
                               !["items"][i] = AddMessage(@, bucket, message),
                               !.root = WithBucket(@, "items")]
    /\ nops' = nops + 1
    /\ last' = [op |-> "validate"]
    /\ UNCHANGED <<initial_data, registered_errors, registered_log>>

ExplicitCode == 41   \* the error_code callers hand to register_error

\* the serializers whose validation code runs: the root, and the nested
\* serializer when the root's payload holds a mapping for it
Validating ==
    {"root"} \cup (IF Has(initial_data.root, "profile")
                      /\ RootValue("profile").t = "dict"
                   THEN {"profile"} ELSE {})

\* calls made by validation code while it runs: non-field registrations with
\* and without a code, field registrations with every combination of error_key
\* and error_code
RegisterArgs(s) ==
    [message : {<<"w">>}, field_name : {None}, error_key : {None},
     error_code : {NoCode, ExplicitCode}]
    \cup (IF s = "root"
          THEN [message : {<<"w">>}, field_name : {"name"},
                error_key : {None, "required"}, error_code : {NoCode, ExplicitCode}]
          ELSE {})

\* self.registered_errors[key] = error; raise RestValidationError(key).  The
\* framework files the raised message under the field the error names, or
\* under non_field_errors when it names none.
StoreAndRaise(s, a, key, error) ==
    /\ nops < MaxOps
    /\ registered_errors' = [registered_errors EXCEPT ![s] = (key :> error) @@ @]
    /\ registered_log' = [registered_log EXCEPT ![s] = (key :> error) @@ @]
    /\ raw_errors' = Filed(s, IF a.field_name = None THEN NON_FIELD
                               ELSE a.field_name, key)
    /\ last' = [op |-> "register_error", s |-> s, args |-> a,
                outcome |-> "registered", key |-> key, code |-> error.code]
    /\ nops' = nops + 1
    /\ UNCHANGED initial_data

\* register_error after its checks; rc is the exception or the code they gave
RegisterOutcome(s, a, rc) ==
    IF rc.exc # "none"
    THEN /\ last' = [op |-> "register_error", s |-> s, args |-> a,
                     outcome |-> "ValueError"]
         /\ UNCHANGED <<initial_data, registered_errors, raw_errors,
                        registered_log, nops>>
    ELSE StoreAndRaise(s, a, CompositeKey(a.message, rc.code, a.field_name),
                       Entry(rc.code, a.field_name, a.message))

\* register_error(a.message, a.field_name, a.error_key, a.error_code) on s
RegisterError(s, a) ==
    RegisterOutcome(s, a, resolve_code(s, a.field_name, a.error_key, a.error_code))

RegisterErrorCall ==
    \E s \in Validating : \E a \in RegisterArgs(s) : RegisterError(s, a)

World == [reg |-> registered_errors, data |-> initial_data, raw |-> raw_errors,
          passes |-> {}, nested |-> <<>>]

\* a serializer whose errors can be read: it has been given its payload
Bound == {s \in {"root", "profile"} : initial_data[s].t # "unset"}

\* the errors property returns (or raises) what build_pretty_errors gave
ErrorsReturn(s, r) ==
    /\ last' = [op |-> "errors", s |-> s, exc |-> r.exc, result |-> r.val,
                passes |-> r.w.passes, nested |-> r.w.nested]
    /\ registered_errors' = r.w.reg
    /\ initial_data' = r.w.data
    /\ UNCHANGED <<raw_errors, registered_log, nops>>

\* the errors property: build_pretty_errors on the raw error map
Errors == \E s \in Bound : ErrorsReturn(s, build_pretty_errors(s, World))

\* the buckets of a serializer's raw error map that hold leaf field messages
LeafBuckets(s) ==
    {i \in DOMAIN raw_errors[s] :
        /\ raw_errors[s][i].type # NON_FIELD
        /\ ~enters_nested(Desc[raw_errors[s][i].type], initial_data[s],
                          raw_errors[s][i].type)}

FieldEntryReturn(s, fname, error, r) ==
    /\ last' = [op |-> "get_field_error_entry", s |-> s, field |-> fname,
                error |-> error, exc |-> r.exc, entry |-> r.entry,
                path |-> r.path, ran |-> r.ran]
    /\ UNCHANGED <<initial_data, registered_errors, raw_errors, registered_log, nops>>

\* get_field_error_entry on one raw message of a leaf bucket
GetFieldErrorEntry ==
    \E s \in Bound : \E i \in LeafBuckets(s) :
      \E j \in DOMAIN raw_errors[s][i].msgs :
        FieldEntryReturn(s, raw_errors[s][i].type, raw_errors[s][i].msgs[j],
                         get_field_error_entry(s, registered_errors[s], initial_data[s],
                                               raw_errors[s][i].msgs[j],
                                               raw_errors[s][i].type))

FieldEntriesReturn(s, fname, errors, r) ==
    /\ last' = [op |-> "get_field_error_entries", s |-> s, field |-> fname,
                errors |-> errors, exc |-> r.exc, entries |-> r.entries]
    /\ UNCHANGED <<initial_data, registered_errors, raw_errors, registered_log, nops>>

\* get_field_error_entries on the messages of a leaf bucket
GetFieldErrorEntries ==
    \E s \in Bound : \E i \in LeafBuckets(s) :
      FieldEntriesReturn(s, raw_errors[s][i].type, raw_errors[s][i].msgs,
                         get_field_error_entries(s, registered_errors[s],
                                                 initial_data[s], raw_errors[s][i].msgs,
                                                 raw_errors[s][i].type))

\* get_non_field_error_entry on one raw message of the non-field bucket
GetNonFieldErrorEntry ==
    \E s \in Bound : \E i \in DOMAIN raw_errors[s] :
      \E j \in DOMAIN raw_errors[s][i].msgs :
        /\ raw_errors[s][i].type = NON_FIELD
        /\ last' = [op |-> "get_non_field_error_entry", s |-> s,
                    error |-> raw_errors[s][i].msgs[j],
                    entry |-> get_non_field_error_entry(
                                  s, registered_errors[s], initial_data[s],
                                  raw_errors[s][i].msgs[j])]
        /\ UNCHANGED <<initial_data, registered_errors, raw_errors,
                       registered_log, nops>>

Next ==
    \/ ValidationFails
    \/ RecordValidationFails
    \/ RegisterErrorCall
    \/ Errors
    \/ GetFieldErrorEntry
    \/ GetFieldErrorEntries
    \/ GetNonFieldErrorEntry

Spec == Init /\ [][Next]_vars

---------------------------------------------------------------------------
\* Claims about find_key (specification SpecKey)

\* the <<descriptor, key>> pairs in the order find_key visits them
RECURSIVE PairsOf(_, _)
PairsOf(dn, i) ==
    IF i > Len(Desc[dn].keys) THEN <<>>
    ELSE <<[dn |-> dn, key |-> Desc[dn].keys[i]]>> \o PairsOf(dn, i + 1)

RECURSIVE IterPairsOf(_)
IterPairsOf(chain) ==
    IF chain = <<>> THEN <<>>
    ELSE PairsOf(Head(chain), 1) \o IterPairsOf(Tail(chain))

IterPairs(fname) == IterPairsOf(Chain(fname))

\* the kwargs reconstructed from the submitted value
Reconstructed(p, fname) == get_field_kwargs(Desc[p.dn], Get(initial_data.root, fname))

PlainMatch(p, fname, message) ==
    Format(Desc[p.dn].tpl[p.key], Reconstructed(p, fname)) = message

\* the many-to-many case: one element of the submitted list as the singular value
ElementMatch(p, fname, message) ==
    /\ p.key = "does_not_exist"
    /\ "value" \in DOMAIN Reconstructed(p, fname)
    /\ Reconstructed(p, fname)["value"].t = "list"
    /\ \E x \in Elements(Reconstructed(p, fname)["value"]) :
          Format(Desc[p.dn].tpl[p.key],
                 [Reconstructed(p, fname) EXCEPT !["value"] = x]) = message

Min(S) == CHOOSE x \in S : \A y \in S : x <= y

Hits(fname, message) ==
    {i \in DOMAIN IterPairs(fname) :
        \/ PlainMatch(IterPairs(fname)[i], fname, message)
        \/ ElementMatch(IterPairs(fname)[i], fname, message)}

FirstDeclaredKey(fname, message) ==
    IF Hits(fname, message) = {} THEN None
    ELSE IterPairs(fname)[Min(Hits(fname, message))].key

\* C3: find_key returns the first key, in declaration order, whose template
\* formatted with the kwargs reconstructed from the submitted value equals the
\* message (for does_not_exist on a submitted list: with one element as the
\* value), every key being formatted with those same reconstructed kwargs, and
\* None when no key of the field or of its child relation matches.
C3_FirstDeclaredKeyWins ==
    last.op = "find_key" => last.key = FirstDeclaredKey(last.field, last.message)

\* the positions of does_not_exist in the iteration order of a field
DnePairs(fname) ==
    {i \in DOMAIN IterPairs(fname) : IterPairs(fname)[i].key = "does_not_exist"}

\* the value submitted for the field of the last call
SubmittedValue == Get(initial_data.root, last.field)

\* the last call asked about the does_not_exist message of a relation field
\* that cites the identifier x: the template formatted as for x submitted alone
Cites(x) ==
    /\ last.op = "find_key"
    /\ Desc[last.field].cls \in field_map.relation
    /\ \E i \in DnePairs(last.field) :
          last.message = Format(Desc[IterPairs(last.field)[i].dn].tpl["does_not_exist"],
                                get_field_kwargs(Desc[IterPairs(last.field)[i].dn], x))

\* C4: for a relation field whose submitted value is a list of identifiers, a
\* does_not_exist message citing any one element of the list, whatever its
\* position, is matched by find_key to the key does_not_exist.
C4_AnyElementGivesDoesNotExist ==
    last.op = "find_key" =>
        \A x \in Elements(SubmittedValue) : Cites(x) => last.key = "does_not_exist"

---------------------------------------------------------------------------
\* Claims about the mixin in use (specification Spec)

\* an entry as callers see it
Plain(e) == [code |-> e.code, field |-> e.field, message |-> e.message]

\* the raw message of the last call is the composite key of an entry that
\* register_error stored with an explicit error_code
AsksRegistered ==
    /\ last.op \in {"get_field_error_entry", "get_non_field_error_entry"}
    /\ last.error \in DOMAIN registered_log[last.s]
    /\ registered_log[last.s][last.error].code = ExplicitCode

\* C1: classifying a raw message equal to the composite key of a registered
\* error returns exactly the code, field and message given to register_error,
\* without formatting a template and without re-executing a validator.
C1_RegisteredEntryReturnedVerbatim ==
    AsksRegistered =>
        /\ Plain(last.entry) = Plain(registered_log[last.s][last.error])
        /\ last.op = "get_field_error_entry" =>
              /\ last.exc = "none"
              /\ last.path = "registered"
              /\ last.ran = <<>>

\* the last call was register_error with a field name
RegistersField == last.op = "register_error" /\ last.args.field_name # None

GivesKey == last.args.error_key # None
GivesCode == last.args.error_code # NoCode

\* C2 as stated: with a field name, a call that gives neither error_key nor
\* error_code, and a call that gives both, is rejected with ValueError.
C2_ExactlyOneOfKeyAndCode ==
    (RegistersField /\ (GivesKey <=> GivesCode)) => last.outcome = "ValueError"

\* C2 amended: with a field name, a call that gives neither error_key nor
\* error_code is rejected with ValueError; a call that gives both is accepted
\* and registers the entry under error_code, error_key being ignored.
C2_NeitherRejectedBothTakesCode ==
    RegistersField =>
        /\ (~GivesKey /\ ~GivesCode) => last.outcome = "ValueError"
        /\ (GivesKey /\ GivesCode) =>
              /\ last.outcome = "registered"
              /\ last.code = last.args.error_code
              /\ last.key \in DOMAIN registered_errors[last.s]
              /\ registered_errors[last.s][last.key].code = last.args.error_code

\* C2 witness: a call with a field name, an error_key and an error_code
\* registered its entry.
C2_Witness ==
    /\ RegistersField
    /\ GivesKey /\ GivesCode
    /\ last.outcome = "registered"

\* the declared validators of the field whose re-execution on the submitted
\* value fails with the message
Matching(s, fname, message) ==
    {i \in DOMAIN Desc[fname].validators :
        run_validator(Desc[fname].validators[i], fname, message, initial_data[s]) = "True"}

\* the code of a validator's name: the serializer's own table first, then the
\* global validator catalog
LocalFirstCode(s, name) ==
    IF name \in DOMAIN FIELD_VALIDATION_ERRORS[s] THEN FIELD_VALIDATION_ERRORS[s][name]
    ELSE IF name \in DOMAIN FRIENDLY_VALIDATOR_ERRORS THEN FRIENDLY_VALIDATOR_ERRORS[name]
    ELSE NoCode

Buckets(s) == {raw_errors[s][i].type : i \in DOMAIN raw_errors[s]}

NestedFields(s) == {f \in Fields[s] : Desc[f].nested # "no"}

\* the messages of a bucket
Messages(s, bucket) ==
    raw_errors[s][CHOOSE i \in DOMAIN raw_errors[s] : raw_errors[s][i].type = bucket].msgs

\* the last call read the errors of the root and returned
RootErrorsReturned ==
    last.op = "errors" /\ last.s = "root" /\ last.exc = "none"

\* the wrapper entries of the result for a field
Wrappers(f) ==
    IF last.result = <<>> THEN {}
    ELSE {k \in DOMAIN last.result.errors :
            /\ "errors" \in DOMAIN last.result.errors[k]
            /\ last.result.errors[k].field = f}

\* the entries of one nested result, each entry without a field given the
\* parent's field name
Flattened(nested_result, f) ==
    IF "errors" \notin DOMAIN nested_result THEN <<>>
    ELSE [k \in DOMAIN nested_result.errors |->
            IF nested_result.errors[k].field = None
            THEN [nested_result.errors[k] EXCEPT !.field = f]
            ELSE nested_result.errors[k]]

\* one entry without a field per non-field message of one nested result,
\* classified by the parent
NonFieldEntries(nested_result) ==
    IF NON_FIELD \notin DOMAIN nested_result THEN <<>>
    ELSE get_non_field_error_entries("root", registered_errors.root,
                                     initial_data.root, nested_result[NON_FIELD])

\* the wrapper of a nested field, Flat giving the list of one nested result
ExpectedWrapper(f, Flat(_, _)) ==
    IF Desc[f].nested = "many"
    THEN [code |-> 2902, field |-> f,
          errors |-> [r \in DOMAIN last.nested[f] |-> Flat(last.nested[f][r], f)]]
    ELSE [code |-> 2901, field |-> f, errors |-> Flat(last.nested[f], f)]

\* each supplied nested field with a bucket has exactly one wrapper, the one
\* Flat gives
OneWrapperEach(Flat(_, _)) ==
    RootErrorsReturned =>
        \A f \in NestedFields("root") \cap Buckets("root") :
            Has(initial_data.root, f) =>
                /\ Cardinality(Wrappers(f)) = 1
                /\ \A k \in Wrappers(f) :
                      last.result.errors[k] = ExpectedWrapper(f, Flat)
                /\ Desc[f].nested = "many" =>
                      Len(last.nested[f]) = Len(initial_data.root.d[f].recs)

FlattenedThenNonField(nested_result, f) ==
    Flattened(nested_result, f) \o NonFieldEntries(nested_result)

LeafEntries(f) ==
    IF last.result = <<>> THEN <<>>
    ELSE LET IsLeafOf(e) == "errors" \notin DOMAIN e /\ e.field = f
         IN  SelectSeq(last.result.errors, IsLeafOf)

C8_ClassificationIsTotal ==
    last.op = "errors" => last.exc = "none"

\* nothing classifies the message: no registration, no template key, no
\* declared validator and no hook fails with it
Unclassifiable(s, fname, message) ==
    /\ message \notin DOMAIN registered_errors[s]
    /\ find_key(Desc[fname], message, fname, initial_data[s]) = None
    /\ Matching(s, fname, message) = {}
    /\ \/ Hook(s, fname) = None
       \/ run_validator(Hook(s, fname), fname, message, initial_data[s]) # "True"

\* C9: get_field_error_entries returns one entry per raw message, in order,
\* and a message that nothing classifies is emitted with a null code, the
\* field's name and the message.
C9_OneEntryPerMessage ==
    last.op = "get_field_error_entries" =>
        /\ last.exc = "none"
        /\ Len(last.entries) = Len(last.errors)
        /\ \A i \in DOMAIN last.errors :
              Unclassifiable(last.s, last.field, last.errors[i]) =>
                  Plain(last.entries[i]) = [code |-> NoCode, field |-> last.field,
                                            message |-> last.errors[i]]

\* C10: every entry of every registered_errors table has the code, field and
\* message it was registered with, whatever errors have been read since.
C10_StoresUnchanged ==
    \A s \in Structs : registered_errors[s] = registered_log[s]

====
